---- MODULE Spec2Model ----
(***************************************************************************)
(* Model of the transfer engine of speedtest-rs (src/src/io.rs): the       *)
(* upload and download executors, the payload generator thread and its     *)
(* bounded channel, the shared AtomicUsize byte counter, the live sampler  *)
(* `measure`, and the callers upload_st / download_st / upload_mt /        *)
(* download_mt.  Byte buffers are kept as (length, ends-with-'\n') pairs;  *)
(* text that the code formats or searches (handshake, acknowledgement) is  *)
(* kept as a sequence of one-character strings.                            *)
(***************************************************************************)
EXTENDS Integers, Sequences, FiniteSets, TLC

\* ------------------------------------------------------------ constants
MB == 1024 * 1024
MEASURE == 32
QueueCap == 16
WatchdogMicros == 20000000
SleepCapMicros == 1000000

\* ------------------------------------------------------------ bounds
\* chunks one payload generator may produce in a run
MaxChunks == 18
\* the clock advances MaxTicks times while the sampler runs
MaxTicks == 2

Min(a, b) == IF a <= b THEN a ELSE b

\* ------------------------------------------------------------ text
Digit == <<"0", "1", "2", "3", "4", "5", "6", "7", "8", "9">>

RECURSIVE Decimal(_)
\* format!("{}", n) of an unsigned integer
Decimal(n) ==
    IF n < 10 THEN <<Digit[n + 1]>>
    ELSE Decimal(n \div 10) \o <<Digit[(n % 10) + 1]>>

\* str::contains: pat occurs in s as a contiguous substring
Contains(s, pat) ==
    \E k \in 0..(Len(s) - Len(pat)) :
        \A j \in 1..Len(pat) : s[k + j] = pat[j]

\* format!("UPLOAD {} 0\r\n", bytes)
UploadMsg(bytes) ==
    <<"U", "P", "L", "O", "A", "D", " ">> \o Decimal(bytes) \o <<" ", "0", "\r", "\n">>

\* format!("DOWNLOAD {}\r\n", bytes)
DownloadMsg(bytes) ==
    <<"D", "O", "W", "N", "L", "O", "A", "D", " ">> \o Decimal(bytes) \o <<"\r", "\n">>

\* ------------------------------------------------------------ results
NoResult == [kind |-> "none"]
\* Ok(bytes as f64 / time as f64 * 8.0): the numerator is kept, the time is not
Throughput(bytes) == [kind |-> "ok", bytes |-> bytes]
\* a std::io::Error propagated by `?`
IoError == [kind |-> "io"]
\* the RecvError of rx.recv() on a channel whose sender is gone
RecvError == [kind |-> "recv"]
\* the failure of TcpStream::connect in upload_mt / download_mt
ConnectError == [kind |-> "connect"]

\* format_err!("Upload was interrupted,upload {} bytes but server response: {:?}", bytes, line)
UploadInterrupted(bytes, line) ==
    [kind |-> "interrupted",
     text |-> "Upload was interrupted,upload {} bytes but server response: {:?}",
     bytes |-> bytes, line |-> line]

\* format_err!("Download was interrupted")
DownloadInterrupted ==
    [kind |-> "interrupted", text |-> "Download was interrupted"]

\* ------------------------------------------------------------ generator arithmetic
\* let mut left = bytes - msg.len(): a usize subtraction.  When msg.len() > bytes
\* the release build wraps to 2^64 + v (v < 0), kept as wrapped = TRUE.
InitialLeft(bytes, msglen) == [wrapped |-> bytes < msglen, v |-> bytes - msglen]

\* while left > 0
LeftPositive(left) == left.wrapped \/ left.v > 0

\* let length = MB.min(left)
ChunkLength(left) == IF left.wrapped THEN MB ELSE Min(MB, left.v)

\* a generator that also marks a chunk of exactly MB bytes
PushesSentinelAtMB(left) == ~left.wrapped /\ left.v <= MB

\* if left < MB { buf.push(b'\n') }
PushesSentinel(left) == ~left.wrapped /\ left.v < MB

\* the Vec sent on the channel: `length` generated bytes, then the pushed '\n';
\* seq is the chunk's position in generation order and stands for its content
MakeChunk(left, seq) ==
    [seq |-> seq,
     len |-> ChunkLength(left) + (IF PushesSentinel(left) THEN 1 ELSE 0),
     nl |-> PushesSentinel(left)]

\* left -= length
LeftAfter(left) == [left EXCEPT !.v = @ - ChunkLength(left)]

\* ------------------------------------------------------------ executor decisions
\* a channel that lets the sender in while it already holds QueueCap chunks
ChannelHasRoomAtCap(q) == Len(q) <= QueueCap

\* mpsc::sync_channel(16): tx.send blocks while the buffer holds 16 chunks
ChannelHasRoom(q) == Len(q) < QueueCap

\* a count that leaves the pushed sentinel out
UploadCountedWithoutSentinel(buffer) == IF buffer.nl THEN buffer.len - 1 ELSE buffer.len

\* let length = buffer.len(); len.fetch_add(length, ..)  (upload write loop)
UploadCounted(buffer) == buffer.len

\* if buffer.last() == Some(&b'\n') { break }  (upload write loop)
UploadLoopBreaks(buffer) == buffer.nl

\* a check that wants the line to be exactly the echo of the size
UploadResultExact(bytes, line) ==
    IF line # <<"O", "K", " ">> \o Decimal(bytes) \o <<"\n">>
    THEN UploadInterrupted(bytes, line)
    ELSE Throughput(bytes)

\* if !line.contains(&format!("{}", bytes)) { Err(..) } else { Ok(..) }
UploadResult(bytes, line) ==
    IF ~Contains(line, Decimal(bytes))
    THEN UploadInterrupted(bytes, line)
    ELSE Throughput(bytes)

\* if length == 0 || buffer.last() == Some(&b'\n') { break }  (download read loop)
DownloadLoopBreaks(buffer) == buffer.len = 0 \/ buffer.nl

\* a loop that tests the break first and so never counts the last buffer
FillCountedUnlessLast(buffer) == IF DownloadLoopBreaks(buffer) THEN 0 ELSE buffer.len

\* let length = buffer.len(); len.fetch_add(length, ..): added before the break is tested
FillCounted(buffer) == buffer.len

\* a check that only rejects a counter short of the size
DownloadResultIfShort(bytes, loaded) ==
    IF loaded < bytes THEN DownloadInterrupted ELSE Throughput(bytes)

\* if len.load(Ordering::Acquire) != bytes { Err(..) } else { Ok(..) }
DownloadResult(bytes, loaded) ==
    IF loaded # bytes THEN DownloadInterrupted ELSE Throughput(bytes)

\* ------------------------------------------------------------ sampler decisions
\* a sampler that takes the counter's value and resets it (swap(0))
CounterAfterSwap(v) == 0

\* len.load(Ordering::Acquire) leaves the counter as it is
CounterAfterLoad(v) == v

\* let step = bytes / MEASURE
MeasureStep(bytes) == bytes \div MEASURE

\* a sampler that also reports a growth of exactly one step
MeasureReportsAtStep(delta, step) == delta >= step

\* if delta > step { info!("Speed now: ...") ... }
MeasureReports(delta, step) == delta > step

\* a sampler without the watchdog
MeasureBreaksOnTargetOnly(new_len, bytes, time) == new_len >= bytes

\* if new_len >= bytes || time > 20_000_000 { break }
MeasureBreaks(new_len, bytes, time) == new_len >= bytes \/ time > WatchdogMicros

\* thread::sleep((elapsed / 4).min(Duration::from_secs(1)))
MeasureSleep(elapsed) == Min(elapsed \div 4, SleepCapMicros)

\* ------------------------------------------------------------ orchestrator arithmetic
\* a caller that keeps the remainder in its byte total
EffectiveBytesUnrounded(bytes, thread) == bytes

\* let bytes = bytes / thread * thread
EffectiveBytes(bytes, thread) == (bytes \div thread) * thread

\* the size handed to each executor: bytes / thread
ShareBytes(bytes, thread) == bytes \div thread

\* ------------------------------------------------------------ environment
\* the calls the model runs: upload_st / download_st take an open stream,
\* upload_mt / download_mt a host and a thread count
UploadSizes == {5, 13, 20, MB + 18, MB + 20, 16 * MB + 20}
DownloadSizes == {0, 1, 2, 3, MB + 2}
MtUploadSizes == {101}
MtDownloadSizes == {5}
ThreadCounts == {1, 2}

\* the clock advances by a little more than half the sampler's watchdog
TickMicros == WatchdogMicros \div 2 + SleepCapMicros

Calls ==
    {[op |-> "upload_st", bytes |-> b, thread |-> 1] : b \in UploadSizes}
    \cup {[op |-> "download_st", bytes |-> b, thread |-> 1] : b \in DownloadSizes}
    \cup {[op |-> "upload_mt", bytes |-> b, thread |-> t] :
              b \in MtUploadSizes, t \in ThreadCounts}
    \cup {[op |-> "download_mt", bytes |-> b, thread |-> t] :
              b \in MtDownloadSizes, t \in ThreadCounts}

\* the line reader.read_line may deliver after an upload of `bytes`: end of
\* stream, an echo of the size, an echo of a number that has the size as a
\* suffix, an echo of a different size
AckLines(bytes) ==
    {<< >>,
     <<"O", "K", " ">> \o Decimal(bytes) \o <<"\n">>,
     <<"O", "K", " ", "1">> \o Decimal(bytes) \o <<"\n">>,
     <<"O", "K", " ">> \o Decimal(IF bytes > 0 THEN bytes - 1 ELSE 7) \o <<"\n">>}

\* what a server may stream in answer to DOWNLOAD bytes before it closes: `total`
\* bytes, those at the positions in nl being '\n'.  In turn: bytes-1 payload bytes
\* and the sentinel; bytes payload bytes and the sentinel; a stream cut one byte
\* short; bytes payload bytes and no sentinel; a '\n' inside the payload
Streams(bytes) ==
    {st \in {[total |-> bytes, nl |-> {bytes}],
             [total |-> bytes + 1, nl |-> {bytes + 1}],
             [total |-> bytes - 1, nl |-> {}],
             [total |-> bytes, nl |-> {}],
             [total |-> bytes, nl |-> {1, bytes}]} :
        st.total >= 0 /\ st.nl \subseteq 1..st.total}

\* lengths one socket read may return when `avail` bytes are still to come;
\* the BufReader's capacity is MB
ReadLengths(avail) ==
    IF avail <= 4 THEN 1..avail
    ELSE {k \in {avail - MB, MB, avail - 1, avail} : 1 <= k /\ k <= Min(avail, MB)}

\* ------------------------------------------------------------ state
VARIABLES
    call,      \* the call under way: [op, bytes, thread]
    total,     \* the caller's local `bytes` (rounded in the _mt functions)
    len,       \* the shared Arc<AtomicUsize>
    opc,       \* caller's position: "spawn", "measure", "join", "returned"
    opened,    \* connections opened by the caller so far
    handles,   \* executor threads spawned so far (handles.len())
    joined,    \* handles joined so far
    ret,       \* the value the call returned
    ex,        \* executor threads: [pc, bytes, buf, line, res]
    gen,       \* payload generator threads: [pc, left, produced]
    queue,     \* the sync_channel buffers
    conn,      \* what each connection carried to the server: [hs, sent, written]
    srv,       \* what each download server streams: [total, nl, pos]
    m,         \* the sampler's locals: [bytes, step, old_len, old_time, wake, start]
    report,    \* the last speed observation the sampler logged
    lastpoll,  \* the sampler's last poll: what it read and whether it broke
    now        \* the clock, in microseconds

vars == <<call, total, len, opc, opened, handles, joined, ret, ex, gen, queue,
          conn, srv, m, report, lastpoll, now>>

Threads == ThreadCounts
NoReport == [any |-> FALSE, delta |-> 0, step |-> 0]
NoPoll == [any |-> FALSE, since_start |-> 0, broke |-> FALSE]
NoBuf == [seq |-> 0, len |-> 0, nl |-> FALSE]

IsUpload == call.op \in {"upload_st", "upload_mt"}
IsDownload == call.op \in {"download_st", "download_mt"}
IsMt == call.op \in {"upload_mt", "download_mt"}

Init ==
    /\ call \in Calls
    /\ total = IF call.op \in {"upload_mt", "download_mt"}
               THEN EffectiveBytes(call.bytes, call.thread)
               ELSE call.bytes
    /\ len = 0
    /\ opc = "spawn"
    /\ opened = 0
    /\ handles = 0
    /\ joined = 0
    /\ ret = NoResult
    /\ ex = [i \in Threads |-> [pc |-> "idle", bytes |-> 0, buf |-> NoBuf, line |-> << >>,
                                res |-> NoResult]]
    /\ gen = [i \in Threads |-> [pc |-> "none", left |-> [wrapped |-> FALSE, v |-> 0], produced |-> 0]]
    /\ queue = [i \in Threads |-> << >>]
    /\ conn = [i \in Threads |-> [hs |-> << >>, sent |-> << >>, written |-> 0]]
    /\ srv = [i \in Threads |-> [total |-> 0, nl |-> {}, pos |-> 0]]
    /\ m = [bytes |-> 0, step |-> 0, old_len |-> 0, old_time |-> 0, wake |-> 0, start |-> 0]
    /\ report = NoReport
    /\ lastpoll = NoPoll
    /\ now = 0

\* ------------------------------------------------------------ callers
sharedUnchangedByCaller == UNCHANGED <<call, total, len, gen, queue, conn, srv>>

\* upload_st / download_st: thread::spawn(move || upload(stream, bytes, len1))
StSpawn ==
    /\ ~IsMt /\ opc = "spawn" /\ handles = 0
    /\ handles' = 1
    /\ ex' = [ex EXCEPT ![1] = [@ EXCEPT !.pc = "handshake", !.bytes = total]]
    /\ UNCHANGED <<opened, opc, joined, ret, m, report, lastpoll, now>>
    /\ sharedUnchangedByCaller

\* upload_mt / download_mt, one turn of `for _ in 0..thread`: connect, spawn, push
MtConnectSpawn ==
    /\ IsMt /\ opc = "spawn" /\ handles < call.thread
    /\ opened' = opened + 1
    /\ handles' = handles + 1
    /\ ex' = [ex EXCEPT ![handles + 1] =
                 [@ EXCEPT !.pc = "handshake", !.bytes = ShareBytes(total, call.thread)]]
    /\ UNCHANGED <<opc, joined, ret, m, report, lastpoll, now>>
    /\ sharedUnchangedByCaller

\* TcpStream::connect(&host)? fails: the call returns the error at once
MtConnectFails ==
    /\ IsMt /\ opc = "spawn" /\ handles < call.thread
    /\ ret' = ConnectError
    /\ opc' = "returned"
    /\ UNCHANGED <<opened, handles, joined, ex, m, report, lastpoll, now>>
    /\ sharedUnchangedByCaller

\* measure(bytes, len), up to the loop
MeasureStart ==
    /\ opc = "spawn" /\ handles = call.thread
    /\ opc' = "measure"
    /\ m' = [bytes |-> total, step |-> MeasureStep(total), old_len |-> 0,
             old_time |-> now, wake |-> now, start |-> now]
    /\ UNCHANGED <<opened, handles, joined, ret, ex, report, lastpoll, now>>
    /\ sharedUnchangedByCaller

\* one turn of the loop of measure, entered when the sleep of the turn before is over
MeasurePoll ==
    /\ opc = "measure" /\ now >= m.wake
    /\ LET new_len == len
           delta == new_len - m.old_len
           elapsed == now - m.old_time
           time == elapsed
           reports == MeasureReports(delta, m.step)
           breaks == MeasureBreaks(new_len, m.bytes, time)
       IN /\ report' = IF reports
                       THEN [any |-> TRUE, delta |-> delta, step |-> m.step]
                       ELSE report
          /\ lastpoll' = [any |-> TRUE, since_start |-> now - m.start, broke |-> breaks]
          /\ m' = [m EXCEPT !.old_len = IF reports THEN new_len ELSE @,
                            !.old_time = IF reports THEN now ELSE @,
                            !.wake = IF breaks THEN @ ELSE now + MeasureSleep(elapsed)]
          /\ opc' = IF breaks THEN "join" ELSE "measure"
    /\ len' = CounterAfterLoad(len)
    /\ UNCHANGED <<opened, handles, joined, ret, ex, now>>
    /\ UNCHANGED <<call, total, gen, queue, conn, srv>>

\* time passes while the sampler runs (no other code reads the clock for a decision)
Tick ==
    /\ opc = "measure" /\ now < MaxTicks * TickMicros
    /\ now' = now + TickMicros
    /\ UNCHANGED <<opened, handles, joined, ret, ex, m, report, lastpoll, opc>>
    /\ sharedUnchangedByCaller

\* the value the call returns once its last handle is joined
FinalResult(res) == IF IsMt THEN Throughput(total) ELSE res

\* a join that does not wait for the thread
JoinReturnsEarly(i) == TRUE

\* h.join() returns once thread i has finished
JoinReturns(i) == ex[i].pc = "done"

\* handle.join().unwrap()? : waits for the next executor in spawn order; an Err
\* result returns from the call at once
Join ==
    /\ opc = "join" /\ joined < handles
    /\ JoinReturns(joined + 1)
    /\ LET res == ex[joined + 1].res
       IN IF res.kind # "ok"
          THEN /\ ret' = res /\ opc' = "returned" /\ joined' = joined + 1
          ELSE /\ joined' = joined + 1
               /\ IF joined + 1 = handles
                  THEN ret' = FinalResult(res) /\ opc' = "returned"
                  ELSE UNCHANGED <<ret, opc>>
    /\ UNCHANGED <<opened, handles, ex, m, report, lastpoll, now>>
    /\ sharedUnchangedByCaller

\* ------------------------------------------------------------ upload executor
callerUnchanged == UNCHANGED <<call, total, opc, opened, handles, joined, ret, m,
                               report, lastpoll, now>>

\* an executor that notes the error and carries on where it was
FinishButContinue(i, res) == [ex EXCEPT ![i] = [@ EXCEPT !.res = res]]

\* return res: the executor thread ends with this result
Finish(i, res) == [ex EXCEPT ![i] = [@ EXCEPT !.pc = "done", !.res = res]]
Goto(i, pc) == [ex EXCEPT ![i] = [@ EXCEPT !.pc = pc]]

\* a receiver that outlives the executor
RxNeverDropped(i) == FALSE

\* the receiver rx lives until upload returns
RxDropped(i) == ex[i].pc = "done"
\* the sender tx lives until the generator thread ends
TxDropped(i) == gen[i].pc \in {"exited", "panicked"}

\* stream.write_all(msg.as_bytes())?  succeeds
UploadHandshake(i) ==
    /\ IsUpload /\ ex[i].pc = "handshake"
    /\ conn' = [conn EXCEPT ![i] = [@ EXCEPT !.hs = UploadMsg(ex[i].bytes)]]
    /\ ex' = Goto(i, "hs_count")
    /\ UNCHANGED <<len, gen, queue, srv>>
    /\ callerUnchanged

\* stream.write_all(msg.as_bytes())?  fails
UploadHandshakeFails(i) ==
    /\ IsUpload /\ ex[i].pc = "handshake"
    /\ ex' = Finish(i, IoError)
    /\ UNCHANGED <<len, gen, queue, conn, srv>>
    /\ callerUnchanged

\* len.fetch_add(msg.len()); mpsc::sync_channel(16); thread::spawn(generator)
UploadHandshakeCount(i) ==
    /\ ex[i].pc = "hs_count"
    /\ len' = len + Len(UploadMsg(ex[i].bytes))
    /\ gen' = [gen EXCEPT ![i] = [@ EXCEPT !.pc = "init"]]
    /\ ex' = Goto(i, "recv")
    /\ UNCHANGED <<queue, conn, srv>>
    /\ callerUnchanged

\* generator: let mut left = bytes - msg.len()  (wraps in a release build)
GenInit(i) ==
    /\ gen[i].pc = "init"
    /\ gen' = [gen EXCEPT ![i] = [@ EXCEPT !.pc = "loop",
                  !.left = InitialLeft(ex[i].bytes, Len(UploadMsg(ex[i].bytes)))]]
    /\ UNCHANGED <<len, ex, queue, conn, srv>>
    /\ callerUnchanged

\* generator: the same subtraction panics on overflow in a debug build
GenInitPanics(i) ==
    /\ gen[i].pc = "init"
    /\ InitialLeft(ex[i].bytes, Len(UploadMsg(ex[i].bytes))).wrapped
    /\ gen' = [gen EXCEPT ![i] = [@ EXCEPT !.pc = "panicked"]]
    /\ UNCHANGED <<len, ex, queue, conn, srv>>
    /\ callerUnchanged

\* generator, one turn of `while left > 0`: tx.send(buf) finds room in the channel
GenSend(i) ==
    /\ gen[i].pc = "loop" /\ LeftPositive(gen[i].left)
    /\ gen[i].produced < MaxChunks
    /\ ~RxDropped(i)
    /\ ChannelHasRoom(queue[i])
    /\ queue' = [queue EXCEPT ![i] = Append(@, MakeChunk(gen[i].left, gen[i].produced + 1))]
    /\ gen' = [gen EXCEPT ![i] = [@ EXCEPT !.left = LeftAfter(gen[i].left),
                                           !.produced = @ + 1]]
    /\ UNCHANGED <<len, ex, conn, srv>>
    /\ callerUnchanged

\* generator: tx.send(buf).unwrap() panics once the receiver is gone
GenSendPanics(i) ==
    /\ gen[i].pc = "loop" /\ LeftPositive(gen[i].left)
    /\ RxDropped(i)
    /\ gen' = [gen EXCEPT ![i] = [@ EXCEPT !.pc = "panicked"]]
    /\ UNCHANGED <<len, ex, queue, conn, srv>>
    /\ callerUnchanged

\* generator: the loop ends and the thread returns, dropping tx
GenExit(i) ==
    /\ gen[i].pc = "loop" /\ ~LeftPositive(gen[i].left)
    /\ gen' = [gen EXCEPT ![i] = [@ EXCEPT !.pc = "exited"]]
    /\ UNCHANGED <<len, ex, queue, conn, srv>>
    /\ callerUnchanged

\* let buffer = rx.recv()?  takes the oldest chunk
UploadRecv(i) ==
    /\ ex[i].pc = "recv" /\ queue[i] # << >>
    /\ ex' = [ex EXCEPT ![i] = [@ EXCEPT !.pc = "write", !.buf = Head(queue[i])]]
    /\ queue' = [queue EXCEPT ![i] = Tail(@)]
    /\ UNCHANGED <<len, gen, conn, srv>>
    /\ callerUnchanged

\* rx.recv()? on an empty channel whose sender is gone
UploadRecvFails(i) ==
    /\ ex[i].pc = "recv" /\ queue[i] = << >> /\ TxDropped(i)
    /\ ex' = Finish(i, RecvError)
    /\ UNCHANGED <<len, gen, queue, conn, srv>>
    /\ callerUnchanged

\* stream.write_all(&buffer)?  succeeds
UploadWrite(i) ==
    /\ ex[i].pc = "write"
    /\ conn' = [conn EXCEPT ![i] = [@ EXCEPT !.sent = Append(@, ex[i].buf.seq),
                                             !.written = @ + ex[i].buf.len]]
    /\ ex' = Goto(i, "count")
    /\ UNCHANGED <<len, gen, queue, srv>>
    /\ callerUnchanged

\* stream.write_all(&buffer)?  fails
UploadWriteFails(i) ==
    /\ ex[i].pc = "write"
    /\ ex' = Finish(i, IoError)
    /\ UNCHANGED <<len, gen, queue, conn, srv>>
    /\ callerUnchanged

\* len.fetch_add(length); if buffer.last() == Some(&b'\n') { break }
UploadCount(i) ==
    /\ ex[i].pc = "count"
    /\ len' = len + UploadCounted(ex[i].buf)
    /\ ex' = Goto(i, IF UploadLoopBreaks(ex[i].buf) THEN "ack" ELSE "recv")
    /\ UNCHANGED <<gen, queue, conn, srv>>
    /\ callerUnchanged

\* reader.read_line(&mut line)? delivers a line; the check of the line
UploadAck(i) ==
    /\ ex[i].pc = "ack"
    /\ \E line \in AckLines(ex[i].bytes) :
           ex' = [ex EXCEPT ![i] = [@ EXCEPT !.pc = "done", !.line = line,
                                             !.res = UploadResult(ex[i].bytes, line)]]
    /\ UNCHANGED <<len, gen, queue, conn, srv>>
    /\ callerUnchanged

\* reader.read_line(&mut line)?  fails
UploadAckFails(i) ==
    /\ ex[i].pc = "ack"
    /\ ex' = Finish(i, IoError)
    /\ UNCHANGED <<len, gen, queue, conn, srv>>
    /\ callerUnchanged

\* ------------------------------------------------------------ download executor
\* stream.write_all(format!("DOWNLOAD {}\r\n", bytes).as_bytes())?  succeeds;
\* the server settles what it will stream
DownloadHandshake(i) ==
    /\ IsDownload /\ ex[i].pc = "handshake"
    /\ conn' = [conn EXCEPT ![i] = [@ EXCEPT !.hs = DownloadMsg(ex[i].bytes)]]
    /\ \E st \in Streams(ex[i].bytes) :
           srv' = [srv EXCEPT ![i] = [total |-> st.total, nl |-> st.nl, pos |-> 0]]
    /\ ex' = Goto(i, "fill")
    /\ UNCHANGED <<len, gen, queue>>
    /\ callerUnchanged

\* stream.write_all(..)?  fails
DownloadHandshakeFails(i) ==
    /\ IsDownload /\ ex[i].pc = "handshake"
    /\ ex' = Finish(i, IoError)
    /\ UNCHANGED <<len, gen, queue, conn, srv>>
    /\ callerUnchanged

\* let buffer = reader.fill_buf()?  : one read of at most MB bytes into the empty
\* buffer; a read of nothing once the server has closed
DownloadFill(i) ==
    /\ ex[i].pc = "fill"
    /\ LET avail == srv[i].total - srv[i].pos
       IN IF avail = 0
          THEN /\ ex' = [ex EXCEPT ![i] = [@ EXCEPT !.pc = "dl_count", !.buf = NoBuf]]
               /\ UNCHANGED srv
          ELSE \E k \in ReadLengths(avail) :
                  /\ ex' = [ex EXCEPT ![i] = [@ EXCEPT !.pc = "dl_count",
                               !.buf = [seq |-> 0, len |-> k,
                                        nl |-> (srv[i].pos + k) \in srv[i].nl]]]
                  /\ srv' = [srv EXCEPT ![i] = [@ EXCEPT !.pos = @ + k]]
    /\ UNCHANGED <<len, gen, queue, conn>>
    /\ callerUnchanged

\* reader.fill_buf()?  fails
DownloadFillFails(i) ==
    /\ ex[i].pc = "fill"
    /\ ex' = Finish(i, IoError)
    /\ UNCHANGED <<len, gen, queue, conn, srv>>
    /\ callerUnchanged

\* len.fetch_add(length); if length == 0 || last == '\n' { break }; reader.consume(length)
DownloadCount(i) ==
    /\ ex[i].pc = "dl_count"
    /\ len' = len + FillCounted(ex[i].buf)
    /\ ex' = Goto(i, IF DownloadLoopBreaks(ex[i].buf) THEN "validate" ELSE "fill")
    /\ UNCHANGED <<gen, queue, conn, srv>>
    /\ callerUnchanged

\* if len.load(Ordering::Acquire) != bytes { Err } else { Ok }
DownloadValidate(i) ==
    /\ ex[i].pc = "validate"
    /\ ex' = Finish(i, DownloadResult(ex[i].bytes, len))
    /\ UNCHANGED <<len, gen, queue, conn, srv>>
    /\ callerUnchanged

\* ------------------------------------------------------------ specification
Next ==
    \/ StSpawn
    \/ MtConnectSpawn
    \/ MtConnectFails
    \/ MeasureStart
    \/ MeasurePoll
    \/ Tick
    \/ Join
    \/ \E i \in Threads : UploadHandshake(i)
    \/ \E i \in Threads : UploadHandshakeFails(i)
    \/ \E i \in Threads : UploadHandshakeCount(i)
    \/ \E i \in Threads : GenInit(i)
    \/ \E i \in Threads : GenInitPanics(i)
    \/ \E i \in Threads : GenSend(i)
    \/ \E i \in Threads : GenSendPanics(i)
    \/ \E i \in Threads : GenExit(i)
    \/ \E i \in Threads : UploadRecv(i)
    \/ \E i \in Threads : UploadRecvFails(i)
    \/ \E i \in Threads : UploadWrite(i)
    \/ \E i \in Threads : UploadWriteFails(i)
    \/ \E i \in Threads : UploadCount(i)
    \/ \E i \in Threads : UploadAck(i)
    \/ \E i \in Threads : UploadAckFails(i)
    \/ \E i \in Threads : DownloadHandshake(i)
    \/ \E i \in Threads : DownloadHandshakeFails(i)
    \/ \E i \in Threads : DownloadFill(i)
    \/ \E i \in Threads : DownloadFillFails(i)
    \/ \E i \in Threads : DownloadCount(i)
    \/ \E i \in Threads : DownloadValidate(i)

Spec == Init /\ [][Next]_vars

TypeOK ==
    /\ call \in Calls
    /\ len \in Nat
    /\ opc \in {"spawn", "measure", "join", "returned"}
    /\ handles \in 0..call.thread /\ opened \in 0..call.thread /\ joined \in 0..handles
    /\ \A i \in Threads : Len(queue[i]) <= QueueCap

\* ------------------------------------------------------------ fair specification
\* The single-connection calls under fair scheduling: every thread that can
\* take a step eventually takes one (they are OS threads), every socket
\* operation eventually succeeds or fails, and time keeps passing.

LiveUploadSizes == {5, 13, 20, MB + 18, MB + 20}
LiveDownloadSizes == {0, 1, 3}

LiveCalls ==
    {[op |-> "upload_st", bytes |-> b, thread |-> 1] : b \in LiveUploadSizes}
    \cup {[op |-> "download_st", bytes |-> b, thread |-> 1] : b \in LiveDownloadSizes}

InitLive == Init /\ call \in LiveCalls

\* time passes for as long as the sampler's watchdog has not yet run out
TickLive ==
    /\ opc = "measure" /\ now - m.old_time <= WatchdogMicros
    /\ now' = now + TickMicros
    /\ UNCHANGED <<opened, handles, joined, ret, ex, m, report, lastpoll, opc>>
    /\ sharedUnchangedByCaller

\* the next step of the calling thread
CallerStep == StSpawn \/ MeasureStart \/ MeasurePoll \/ Join

\* the next step of executor thread i, whichever way its socket operation ends
ExecutorStep(i) ==
    \/ UploadHandshake(i) \/ UploadHandshakeFails(i) \/ UploadHandshakeCount(i)
    \/ UploadRecv(i) \/ UploadRecvFails(i)
    \/ UploadWrite(i) \/ UploadWriteFails(i) \/ UploadCount(i)
    \/ UploadAck(i) \/ UploadAckFails(i)
    \/ DownloadHandshake(i) \/ DownloadHandshakeFails(i)
    \/ DownloadFill(i) \/ DownloadFillFails(i)
    \/ DownloadCount(i) \/ DownloadValidate(i)

\* the next step of generator thread i
GeneratorStep(i) ==
    GenInit(i) \/ GenInitPanics(i) \/ GenSend(i) \/ GenSendPanics(i) \/ GenExit(i)

NextLive ==
    \/ StSpawn
    \/ MeasureStart
    \/ MeasurePoll
    \/ TickLive
    \/ Join
    \/ \E i \in Threads : UploadHandshake(i)
    \/ \E i \in Threads : UploadHandshakeFails(i)
    \/ \E i \in Threads : UploadHandshakeCount(i)
    \/ \E i \in Threads : GenInit(i)
    \/ \E i \in Threads : GenInitPanics(i)
    \/ \E i \in Threads : GenSend(i)
    \/ \E i \in Threads : GenSendPanics(i)
    \/ \E i \in Threads : GenExit(i)
    \/ \E i \in Threads : UploadRecv(i)
    \/ \E i \in Threads : UploadRecvFails(i)
    \/ \E i \in Threads : UploadWrite(i)
    \/ \E i \in Threads : UploadWriteFails(i)
    \/ \E i \in Threads : UploadCount(i)
    \/ \E i \in Threads : UploadAck(i)
    \/ \E i \in Threads : UploadAckFails(i)
    \/ \E i \in Threads : DownloadHandshake(i)
    \/ \E i \in Threads : DownloadHandshakeFails(i)
    \/ \E i \in Threads : DownloadFill(i)
    \/ \E i \in Threads : DownloadFillFails(i)
    \/ \E i \in Threads : DownloadCount(i)
    \/ \E i \in Threads : DownloadValidate(i)

SpecLive ==
    /\ InitLive
    /\ [][NextLive]_vars
    /\ WF_vars(TickLive)
    /\ WF_vars(CallerStep)
    /\ \A i \in Threads : WF_vars(ExecutorStep(i))
    /\ \A i \in Threads : WF_vars(GeneratorStep(i))

\* ------------------------------------------------------------ claims
\* C1: a single-connection upload that returns success leaves the shared counter
\* equal to the requested size (handshake plus all chunks written sum to it).
C1_UploadCounterEqualsTarget ==
    (call.op = "upload_st" /\ ex[1].pc = "done" /\ ex[1].res.kind = "ok")
        => len = call.bytes

\* C2: a single-connection download that ran its read loop to the end returns
\* success exactly when the counter equals the requested size; success never
\* comes with another counter value; and after a zero-length read that follows
\* fewer bytes than requested the result is the interrupted-transfer error.
C2_DownloadSuccessIffCounter ==
    (call.op = "download_st" /\ ex[1].pc = "done") =>
        /\ ex[1].res.kind = "ok" => len = call.bytes
        /\ ex[1].res.kind # "io" => (ex[1].res.kind = "ok" <=> len = call.bytes)
        /\ (ex[1].res.kind # "io" /\ ex[1].buf.len = 0 /\ srv[1].pos < call.bytes)
               => ex[1].res = DownloadInterrupted

C2_Witness ==
    /\ call.op = "download_st" /\ ex[1].pc = "done"
    /\ call.bytes = 3 /\ srv[1].total = 2 /\ srv[1].pos = 2 /\ ex[1].buf.len = 0
    /\ ex[1].res = DownloadInterrupted

\* the completed single-connection downloads whose reads all succeeded
DownloadStCompleted ==
    call.op = "download_st" /\ ex[1].pc = "done" /\ ex[1].res.kind # "io"

\* C3 as stated: when the server streams n payload bytes and then the '\n'
\* sentinel (n + 1 bytes), the download counts n and succeeds.
C3_PayloadThenSentinel ==
    (DownloadStCompleted /\ srv[1].total = call.bytes + 1
        /\ srv[1].nl = {call.bytes + 1})
        => (len = call.bytes /\ ex[1].res.kind = "ok")

\* C3 amended: when the server streams n >= 1 bytes in all, the last of them the
\* only '\n', then however the stream is cut into reads the download counts n
\* and succeeds.
C3_SentinelWithinSize ==
    (DownloadStCompleted /\ call.bytes >= 1 /\ srv[1].total = call.bytes
        /\ srv[1].nl = {call.bytes})
        => (len = call.bytes /\ ex[1].res = Throughput(call.bytes))

C3_Witness ==
    /\ DownloadStCompleted /\ call.bytes = MB + 2
    /\ srv[1].total = MB + 2 /\ srv[1].nl = {MB + 2} /\ srv[1].pos = MB + 2
    /\ len = MB + 2 /\ ex[1].res.kind = "ok"

\* C4: upload_mt and download_mt never open more than N connections nor start
\* more than N executors, every executor asks for floor(targetBytes/N) bytes in
\* its handshake, and once the connections are open there are exactly N of each
\* and floor(targetBytes/N)*N is the sampler's target and the byte total of the
\* result.
C4_MtPartition ==
    IsMt =>
        LET share == call.bytes \div call.thread
        IN /\ opened <= call.thread /\ handles <= call.thread
           /\ \A i \in Threads :
                 /\ ex[i].pc # "idle" <=> i <= handles
                 /\ i <= handles => ex[i].bytes = share
                 /\ conn[i].hs # << >> =>
                       conn[i].hs = IF IsUpload THEN UploadMsg(share) ELSE DownloadMsg(share)
           /\ (opc \in {"measure", "join"} \/ (opc = "returned" /\ ret # ConnectError))
                 => /\ opened = call.thread /\ handles = call.thread
                    /\ m.bytes = share * call.thread
           /\ ret.kind = "ok" => ret.bytes = share * call.thread

C4_Witness ==
    /\ call.op = "upload_mt" /\ call.bytes = 101 /\ call.thread = 2
    /\ opc = "returned" /\ ret = Throughput(100)
    /\ \A i \in {1, 2} : conn[i].hs = UploadMsg(50)

\* C5: once the acknowledgement line has been read, the upload succeeds exactly
\* when the line contains the decimal form of the requested size, and fails
\* otherwise with an interrupted-transfer error carrying the size and the line.
C5_AckCheck ==
    \A i \in Threads :
        (IsUpload /\ ex[i].pc = "done" /\ ex[i].res.kind \in {"ok", "interrupted"}) =>
            /\ ex[i].res.kind = "ok" <=> Contains(ex[i].line, Decimal(ex[i].bytes))
            /\ ex[i].res.kind = "interrupted" =>
                   (ex[i].res.bytes = ex[i].bytes /\ ex[i].res.line = ex[i].line)
            /\ ex[i].line = <<"O", "K", " ", "1", "9", "\n">> => ex[i].res.kind # "ok"

C5_Witness ==
    /\ call.op = "upload_st" /\ call.bytes = 20 /\ ex[1].pc = "done"
    /\ ex[1].line = <<"O", "K", " ", "1", "2", "0", "\n">>
    /\ ex[1].res.kind = "ok"

\* C6: when upload_mt or download_mt returns an executor's error, every executor
\* thread of the call has terminated.
C6_ErrorReturnAfterAllExecutors ==
    (IsMt /\ opc = "returned" /\ ret.kind \notin {"ok", "connect"})
        => \A i \in 1..handles : ex[i].pc = "done"

\* C7: every chunk the generator pushes has a length in (0, MB], the appended
\* sentinel counted, and a chunk carrying the sentinel is the last one pushed.
C7_ChunkShape ==
    \A i \in Threads : \A k \in 1..Len(queue[i]) :
        LET c == queue[i][k]
        IN /\ 0 < c.len /\ c.len <= MB
           /\ c.nl => (c.seq = gen[i].produced /\ ~LeftPositive(gen[i].left))

C7_Witness ==
    /\ call.bytes = MB + 20
    /\ Len(queue[1]) = 2
    /\ queue[1][1] = [seq |-> 1, len |-> MB, nl |-> FALSE]
    /\ queue[1][2] = [seq |-> 2, len |-> 3, nl |-> TRUE]

\* C8: the sampler logs a speed only at a poll where the counter grew by more
\* than floor(targetBytes/32) since the last logged poll, and the growth it
\* computes is never negative.
C8_ReportOnlyAboveStep ==
    /\ report.any => (report.delta > total \div 32 /\ report.step = total \div 32)
    /\ opc = "measure" => len - m.old_len >= 0

C8_Witness ==
    /\ call.op = "upload_mt" /\ call.thread = 2 /\ report.any
    /\ report.delta = 13 /\ m.old_len = 26

\* C9: the sampler's loop ends at the first poll at which more than 20 seconds
\* have passed since the sampler started.
C9_WatchdogSinceStart ==
    (lastpoll.any /\ lastpoll.since_start > WatchdogMicros) => lastpoll.broke

\* C10: every interrupted-transfer error carries the requested size and the
\* observed value (the line for an upload, the byte count for a download).
C10_InterruptedCarriesBoth ==
    \A i \in Threads :
        ex[i].res.kind = "interrupted" =>
            /\ "bytes" \in DOMAIN ex[i].res
            /\ {"line", "len"} \cap DOMAIN ex[i].res # {}

\* C11: in an upload whose payload (requested size minus handshake length) is
\* positive, the write loop never ends by the channel closing without a sentinel.
C11_LoopEndsOnSentinel ==
    \A i \in Threads :
        (IsUpload /\ ex[i].bytes > Len(UploadMsg(ex[i].bytes)))
            => ex[i].res # RecvError

\* C12: in a two-connection download where each server streams exactly its
\* connection's share, sentinel last, and no read fails, every executor's
\* validation passes and download_mt returns success.
C12_MtDownloadIndependent ==
    (/\ call.op = "download_mt" /\ call.thread = 2
     /\ \A i \in Threads :
           /\ ex[i].pc = "done" /\ ex[i].res.kind # "io"
           /\ srv[i].total = ex[i].bytes /\ srv[i].nl = {ex[i].bytes})
        => /\ \A i \in Threads : ex[i].res.kind = "ok"
           /\ opc = "returned" => ret.kind = "ok"

\* C13: the channel never holds more than 16 chunks; the generator cannot push
\* while it holds 16; the executor can pop whenever it is not empty; and the
\* chunks reach the connection in the order they were generated.
C13_BoundedFifo ==
    \A i \in Threads :
        /\ Len(queue[i]) <= QueueCap
        /\ Len(queue[i]) = QueueCap => ~ENABLED GenSend(i)
        /\ (ex[i].pc = "recv" /\ queue[i] # << >>) => ENABLED UploadRecv(i)
        /\ \A k \in 1..Len(conn[i].sent) : conn[i].sent[k] = k
        /\ \A k \in 1..Len(queue[i]) :
               queue[i][k].seq = gen[i].produced - Len(queue[i]) + k
        /\ ex[i].pc \in {"write", "count"} =>
               ex[i].buf.seq = gen[i].produced - Len(queue[i])

C13_Witness ==
    /\ call.bytes = 16 * MB + 20
    /\ Len(queue[1]) = QueueCap /\ gen[1].pc = "loop" /\ LeftPositive(gen[1].left)
    /\ ex[1].pc = "recv" /\ conn[1].sent = << >>

\* C14: the shared counter starts at 0, never decreases, and no step of the
\* sampler or of the clock changes it.
C14_CounterMonotone ==
    /\ len = 0
    /\ [][/\ len' >= len
          /\ (m' # m \/ report' # report \/ lastpoll' # lastpoll \/ now' # now)
                => len' = len]_vars

C14_Witness ==
    /\ call.op = "upload_mt" /\ call.thread = 2
    /\ lastpoll.any /\ report.any /\ m.old_len = 26 /\ len = 102

\* C15: upload_st and download_st return only after the executor has finished,
\* and return its result, also when the sampler had stopped on its watchdog with
\* the transfer incomplete.
C15_StReturnsExecutorResult ==
    (~IsMt /\ opc = "returned") => (ex[1].pc = "done" /\ ret = ex[1].res)

C15_Witness ==
    /\ call.op = "upload_st" /\ call.bytes = 20 /\ opc = "returned"
    /\ lastpoll.broke /\ lastpoll.since_start > WatchdogMicros /\ m.old_len = 13
    /\ ret = Throughput(20) /\ len = 21

\* C16: a failed socket write ends the upload executor in that step with the
\* error: nothing is added to the counter, nothing more reaches the connection,
\* no acknowledgement is read, and the executor takes no further step.
C16_WriteFailureReturns ==
    [][\A i \in Threads :
          IsUpload =>
            /\ (ex[i].pc \in {"handshake", "write"} /\ ex'[i].res = IoError)
                  => /\ ex'[i].pc = "done" /\ ex'[i].line = << >>
                     /\ len' = len /\ conn' = conn
            /\ ex[i].pc = "done" => (ex'[i] = ex[i] /\ conn'[i] = conn[i])]_vars

C16_Witness ==
    /\ call.bytes = MB + 20 /\ ex[1].pc = "done" /\ ex[1].res = IoError
    /\ conn[1].sent = <<1>> /\ ex[1].buf.seq = 2 /\ len = 18 + MB

\* C17: no executor sends its handshake before the N-th connection is open, and
\* when the call returns a connection-open error no executor has been started.
C17_OpenAllBeforeStart ==
    IsMt =>
        /\ opened < call.thread => \A i \in Threads : conn[i].hs = << >>
        /\ ret = ConnectError => \A i \in Threads : ex[i].pc \in {"idle", "done"}

RECURSIVE BytesWritten(_)
\* the bytes the write_all calls of the executors in S delivered
BytesWritten(S) ==
    IF S = {} THEN 0
    ELSE LET i == CHOOSE x \in S : TRUE
         IN Len(conn[i].hs) + conn[i].written + BytesWritten(S \ {i})

\* C19: in an upload the counter never exceeds the bytes written to the sockets
\* of the call, and equals them once no executor is running.
C19_CounterMatchesWritten ==
    IsUpload =>
        /\ len <= BytesWritten(Threads)
        /\ (\A i \in Threads : ex[i].pc \in {"idle", "done"})
              => len = BytesWritten(Threads)

C19_Witness ==
    /\ call.op = "upload_mt" /\ call.thread = 2
    /\ ex[1].pc = "count" /\ ex[2].pc = "done" /\ ex[2].res.kind = "ok"
    /\ len = 64 /\ BytesWritten(Threads) = 102

\* C18: under fair scheduling every upload_st call whose size is at least its
\* handshake length, and every download_st call, eventually returns.
C18_StCallsReturn ==
    (IsUpload => call.bytes >= Len(UploadMsg(call.bytes)))
        => <>(opc = "returned")

C18_Witness ==
    /\ call.op = "upload_st" /\ call.bytes = MB + 18
    /\ opc = "returned" /\ ret = RecvError
    /\ gen[1].pc = "exited" /\ gen[1].produced = 1

\* C20: once an executor has returned, its generator pushes nothing more and,
\* under fair scheduling, ends.
C20_GeneratorEnds ==
    /\ [][\A i \in Threads :
             ex[i].pc = "done" =>
                (queue'[i] = queue[i] /\ gen'[i].produced = gen[i].produced)]_vars
    /\ \A i \in Threads :
          [](ex[i].pc = "done" => <>(gen[i].pc \in {"none", "exited", "panicked"}))

C20_Witness ==
    /\ call.op = "upload_st" /\ ex[1].pc = "done" /\ ex[1].res = IoError
    /\ Len(queue[1]) = QueueCap /\ gen[1].pc = "panicked"

\* the payload bytes generator i has pushed so far
GeneratedBytes(i) ==
    IF gen[i].left.wrapped
    THEN gen[i].produced * MB
    ELSE IF gen[i].pc \in {"loop", "exited"} \/ gen[i].produced > 0
         THEN (ex[i].bytes - Len(UploadMsg(ex[i].bytes))) - gen[i].left.v
         ELSE 0

\* C21: the generator's remaining-byte count never wraps, and the payload it
\* has generated is never more than the connection's target size.
C21_LeftNeverWraps ==
    \A i \in Threads :
        /\ ~gen[i].left.wrapped
        /\ GeneratedBytes(i) <= ex[i].bytes

====
